---- MODULE Spec2Model ----
(***************************************************************************)
(* Model of the invoice server of src/server.js (second, logo-aware        *)
(* revision, lines 401-818): the PDF layout of generateInvoicePDF as a     *)
(* sequence of drawing operations, and the create / download / delete /    *)
(* status handlers around the record store and the artifact directory.     *)
(* Money is modelled in whole currency units.                              *)
(***************************************************************************)
EXTENDS Integers, Sequences, FiniteSets, TLC

VARIABLES
    invoiceData,   \* layout run: the invoice value handed to the renderer
    logo,          \* state of the logo asset: "absent", "ok" or "corrupt"
    doc,           \* layout run: drawing operations of the latest render
    prev,          \* layout run: input and output of the render before it
    lpc,           \* layout run: "ready" (input chosen), "done" (rendered), "off"
    store,         \* record store: invoice id -> persisted invoice
    files,         \* artifact directory: the paths (by invoice number) that exist
    nextNum,       \* next value of the invoice number / id generator
    req            \* request slot -> the handler running in it

lvars == <<invoiceData, logo, doc, prev, lpc>>
svars == <<store, files, nextNum, req>>
vars == <<invoiceData, logo, doc, prev, lpc, store, files, nextNum, req>>

\* ---------------------------------------------------------------- bounds
MaxItems == 2
MaxInvoices == 1

\* ------------------------------------------------------------ domain
NoVal == "<none>"

LogoStates == {"absent", "ok", "corrupt"}
Quantities == {1, 2}
Rates == {50}
RenderTaxes == {0 - 5, 0, 8}

\* truthiness of an optional string field
Truthy(v) == v # NoVal /\ v # ""

ItemOf(q, r) == [description |-> "Design", quantity |-> q, rate |-> r, amount |-> q * r]

StoredItems == {ItemOf(q, r) : q \in Quantities, r \in Rates}

ItemSeqs == UNION {[1..n -> StoredItems] : n \in 1..MaxItems}

RECURSIVE SumAmounts(_)
SumAmounts(items) ==
    IF items = <<>> THEN 0
    ELSE SumAmounts(SubSeq(items, 1, Len(items) - 1)) + items[Len(items)].amount

\* companyInfo defaults of the schema
companyInfo ==
    [name |-> "Your Company Name", address |-> "123 Business St, City, State 12345",
     email |-> "hello@yourcompany.com", phone |-> "+1 (555) 123-4567"]

\* ------------------------------------------------------------ formatting
\* a piece of text: a literal prefix, a string part and a numeric part
Txt(pre, str, num) == [pre |-> pre, str |-> str, num |-> num]

\* `$${n.toFixed(2)}` of a whole amount
toFixed2(n) == Txt("$", ".00", n)

\* new Date(d).toLocaleDateString() in the process locale
toLocaleDateString(d) ==
    CASE d = "2026-11-01" -> "11/1/2026"
      [] d = "2026-12-01" -> "12/1/2026"
      [] OTHER -> "Invalid Date"

\* ------------------------------------------------------------ the layout
Max(a, b) == IF a >= b THEN a ELSE b

\* variant: the reserved height is set before doc.image is attempted
logoHeight_SetBeforeImage(l) == IF l # "absent" THEN 70 ELSE 0

\* fs.existsSync(logoPath) and the try/catch around doc.image
logoHeight(l) ==
    IF l # "absent"
    THEN IF l = "ok" THEN 70 ELSE 0
    ELSE 0

headerY(l) == 50 + logoHeight(l)

invoiceTitleY(l) == Max(50, headerY(l))

\* variant: the fixed client origin of the first revision of the renderer
clientY_Fixed(l) == 160

\* variant: the client origin is not clamped to the fixed minimum
clientY_NoClamp(l) == headerY(l) + 100

clientY(l) == Max(160, headerY(l) + 100)

clientInfoHeight(inv) ==
    55 + (IF Truthy(inv.clientInfo.address) THEN 15 ELSE 0)
       + (IF Truthy(inv.clientInfo.phone) THEN 15 ELSE 0)

\* variant: the fixed table origin of the first revision of the renderer
tableTop_Fixed(inv, l) == 280

tableTop(inv, l) == clientY(l) + clientInfoHeight(inv) + 30

Op(tag, row, txt, x, y, size) ==
    [tag |-> tag, row |-> row, txt |-> txt, x |-> x, y |-> y, size |-> size]

logoOps(l) ==
    IF l = "ok" THEN <<Op("logo", 0, Txt("", "logo.png", 120), 50, 50, 60)>> ELSE <<>>

headerOps(inv, l) ==
    <<Op("companyName", 0, Txt("", inv.companyInfo.name, 0), 50, headerY(l), 20),
      Op("companyAddress", 0, Txt("", inv.companyInfo.address, 0), 50, headerY(l) + 30, 12),
      Op("companyEmail", 0, Txt("", inv.companyInfo.email, 0), 50, headerY(l) + 45, 12),
      Op("companyPhone", 0, Txt("", inv.companyInfo.phone, 0), 50, headerY(l) + 60, 12)>>

\* variant: the Due Date line is drawn, blank, also when dueDate is absent
titleOps_AlwaysDue(inv, l) ==
    <<Op("title", 0, Txt("INVOICE", "", 0), 400, invoiceTitleY(l), 24),
      Op("invoiceNumber", 0, Txt("Invoice #: ", "", inv.invoiceNumber), 400, invoiceTitleY(l) + 30, 12),
      Op("date", 0, Txt("Date: ", toLocaleDateString(inv.createdAt), 0), 400, invoiceTitleY(l) + 45, 12),
      Op("dueDate", 0, Txt("Due Date: ", IF Truthy(inv.dueDate) THEN toLocaleDateString(inv.dueDate) ELSE "", 0),
         400, invoiceTitleY(l) + 60, 12)>>

titleOps(inv, l) ==
    <<Op("title", 0, Txt("INVOICE", "", 0), 400, invoiceTitleY(l), 24),
      Op("invoiceNumber", 0, Txt("Invoice #: ", "", inv.invoiceNumber), 400, invoiceTitleY(l) + 30, 12),
      Op("date", 0, Txt("Date: ", toLocaleDateString(inv.createdAt), 0), 400, invoiceTitleY(l) + 45, 12)>>
    \o (IF Truthy(inv.dueDate)
        THEN <<Op("dueDate", 0, Txt("Due Date: ", toLocaleDateString(inv.dueDate), 0),
                  400, invoiceTitleY(l) + 60, 12)>>
        ELSE <<>>)

clientOps(inv, l) ==
    <<Op("billTo", 0, Txt("Bill To:", "", 0), 50, clientY(l), 16),
      Op("clientName", 0, Txt("", inv.clientInfo.name, 0), 50, clientY(l) + 20, 12),
      Op("clientEmail", 0, Txt("", inv.clientInfo.email, 0), 50, clientY(l) + 35, 12)>>
    \o (IF Truthy(inv.clientInfo.address)
        THEN <<Op("clientAddress", 0, Txt("", inv.clientInfo.address, 0), 50, clientY(l) + 50, 12)>>
        ELSE <<>>)
    \o (IF Truthy(inv.clientInfo.phone)
        THEN <<Op("clientPhone", 0, Txt("", inv.clientInfo.phone, 0), 50,
                  clientY(l) + 50 + (IF Truthy(inv.clientInfo.address) THEN 15 ELSE 0), 12)>>
        ELSE <<>>)

tableHeaderOps(inv, l) ==
    <<Op("tableHeader", 0, Txt("Description", "", 0), 50, tableTop(inv, l), 12),
      Op("tableHeader", 0, Txt("Qty", "", 0), 300, tableTop(inv, l), 12),
      Op("tableHeader", 0, Txt("Rate", "", 0), 350, tableTop(inv, l), 12),
      Op("tableHeader", 0, Txt("Amount", "", 0), 450, tableTop(inv, l), 12),
      Op("tableRule", 0, Txt("rule", "", 550), 50, tableTop(inv, l) + 15, 0)>>

\* variant: a row advances the cursor by the conditional-line height
rowY_LineHeight(inv, l, i) == tableTop(inv, l) + 30 + 15 * (i - 1)

\* yPosition when row i (1-based here, index i-1 in the code) is drawn
rowY(inv, l, i) == tableTop(inv, l) + 30 + 20 * (i - 1)

itemRowOps(inv, l, i) ==
    <<Op("row", i, Txt("", inv.items[i].description, 0), 50, rowY(inv, l, i), 12),
      Op("row", i, Txt("", "", inv.items[i].quantity), 300, rowY(inv, l, i), 12),
      Op("row", i, toFixed2(inv.items[i].rate), 350, rowY(inv, l, i), 12),
      Op("row", i, toFixed2(inv.items[i].amount), 450, rowY(inv, l, i), 12)>>

RECURSIVE itemsOps(_, _, _)
itemsOps(inv, l, n) ==
    IF n = 0 THEN <<>> ELSE itemsOps(inv, l, n - 1) \o itemRowOps(inv, l, n)

\* yPosition after the forEach
yAfterItems(inv, l) == tableTop(inv, l) + 30 + 20 * Len(inv.items)

totalsRuleY(inv, l) == yAfterItems(inv, l) + 20

subtotalY(inv, l) == totalsRuleY(inv, l) + 10

taxY(inv, l) == subtotalY(inv, l) + 20

\* variant: the Total line does not move down for the Tax line
totalY_NoTaxSlot(inv, l) == subtotalY(inv, l) + 20

totalY(inv, l) == subtotalY(inv, l) + (IF inv.tax > 0 THEN 20 ELSE 0) + 20

totalsOps(inv, l) ==
    <<Op("totalsRule", 0, Txt("rule", "", 550), 350, totalsRuleY(inv, l), 0),
      Op("subtotal", 0, Txt("Subtotal:", "", 0), 350, subtotalY(inv, l), 12),
      Op("subtotal", 0, toFixed2(inv.subtotal), 450, subtotalY(inv, l), 12)>>
    \o (IF inv.tax > 0
        THEN <<Op("tax", 0, Txt("Tax:", "", 0), 350, taxY(inv, l), 12),
               Op("tax", 0, toFixed2(inv.tax), 450, taxY(inv, l), 12)>>
        ELSE <<>>)
    \o <<Op("total", 0, Txt("Total:", "", 0), 350, totalY(inv, l), 14),
         Op("total", 0, toFixed2(inv.total), 450, totalY(inv, l), 14)>>

footerOps(inv, l) ==
    <<Op("footer", 0, Txt("Thank you for your business!", "", 0), 50, totalY(inv, l) + 80, 10)>>

\* the drawing operations of one render, in emission order
generateInvoicePDF(inv, l) ==
    logoOps(l) \o headerOps(inv, l) \o titleOps(inv, l) \o clientOps(inv, l)
    \o tableHeaderOps(inv, l) \o itemsOps(inv, l, Len(inv.items))
    \o totalsOps(inv, l) \o footerOps(inv, l)

\* ------------------------------------------------------------ layout run
RenderInput(addr, phone, due, tax, items) ==
    [invoiceNumber |-> 1,
     clientInfo |-> [name |-> "Ann", email |-> "ann@x", address |-> addr, phone |-> phone],
     companyInfo |-> companyInfo,
     items |-> items,
     subtotal |-> SumAmounts(items),
     tax |-> tax,
     total |-> SumAmounts(items) + tax,
     dueDate |-> due,
     createdAt |-> "2026-11-01"]

RenderInputs ==
    {RenderInput(a, p, d, t, is) :
        a \in {NoVal, "1 Main St"}, p \in {NoVal, "555"}, d \in {NoVal, "2026-12-01"},
        t \in RenderTaxes, is \in ItemSeqs}

\* ------------------------------------------------------------ the server
Slots == {"a", "b"}
Nums == 1..MaxInvoices

\* request bodies of POST /api/invoices
NoClient == <<>>
Client(name, email, addr, phone) ==
    <<[name |-> name, email |-> email, address |-> addr, phone |-> phone]>>

ReqItem(q, r) == [description |-> "Design", quantity |-> q, rate |-> r]

Items(kind, list) == [kind |-> kind, list |-> list]

Tax(kind, val) == [kind |-> kind, val |-> val]

Body(c, is, t) == [clientInfo |-> c, items |-> is, tax |-> t]

GoodClient == Client("Ann", "ann@x", "1 Main St", NoVal)
OneItem == Items("array", <<ReqItem(2, 50)>>)
TwoItems == Items("array", <<ReqItem(1, 50), ReqItem(2, 30)>>)

BadBodies ==
    {Body(c, OneItem, Tax("none", 0)) :
        c \in {NoClient, Client(NoVal, "ann@x", NoVal, NoVal), Client("", "ann@x", NoVal, NoVal),
               Client("Ann", NoVal, NoVal, NoVal)}}
    \cup {Body(GoodClient, is, Tax("none", 0)) :
        is \in {Items("missing", <<>>), Items("notArray", <<>>), Items("array", <<>>)}}

GoodBodies ==
    {Body(GoodClient, OneItem, Tax("none", 0)), Body(GoodClient, TwoItems, Tax("str", 5)),
     Body(GoodClient, OneItem, Tax("num", 0 - 5))}

Bodies == BadBodies \cup GoodBodies

\* variant: an empty item list passes the second check
validate_NoEmptyCheck(body) ==
    IF body.clientInfo = NoClient
       \/ ~Truthy(body.clientInfo[1].name)
       \/ ~Truthy(body.clientInfo[1].email)
    THEN 400
    ELSE IF body.items.kind = "missing" \/ body.items.kind # "array" THEN 400 ELSE 0

\* the two validation checks of the create handler; the code of the response
\* they produce, 0 when the body passes
validate(body) ==
    IF body.clientInfo = NoClient
       \/ ~Truthy(body.clientInfo[1].name)
       \/ ~Truthy(body.clientInfo[1].email)
    THEN 400
    ELSE IF body.items.kind = "missing" \/ body.items.kind # "array" \/ Len(body.items.list) = 0
         THEN 400
         ELSE 0

\* items.map(item => ...): amount = quantity * rate for each item, in order
processedItems(list) ==
    [i \in DOMAIN list |->
        [description |-> list[i].description, quantity |-> list[i].quantity,
         rate |-> list[i].rate, amount |-> list[i].quantity * list[i].rate]]

\* subtotal += amount over the items, from 0
RECURSIVE subtotalOf(_)
subtotalOf(list) ==
    IF list = <<>> THEN 0
    ELSE subtotalOf(SubSeq(list, 1, Len(list) - 1))
         + list[Len(list)].quantity * list[Len(list)].rate

\* const taxAmount = tax || 0
taxAmount(t) ==
    IF t.kind = "none" \/ (t.kind = "num" /\ t.val = 0) THEN Tax("num", 0) ELSE t

RECURSIVE Pow10Above(_)
\* the power of ten that appends the decimal digits of n >= 0 to a number
Pow10Above(n) == IF n < 10 THEN 10 ELSE 10 * Pow10Above(n \div 10)

\* subtotal + taxAmount of JavaScript, then the schema's cast to Number: a
\* numeric string operand makes + a concatenation of the decimal digits
jsAdd(a, t) ==
    IF t.kind = "str" THEN a * Pow10Above(t.val) + t.val ELSE a + t.val

\* the invoice document built and cast by the schema in the create handler
newInvoice(body, num) ==
    [invoiceNumber |-> num,
     clientInfo |-> body.clientInfo[1],
     companyInfo |-> companyInfo,
     items |-> processedItems(body.items.list),
     subtotal |-> subtotalOf(body.items.list),
     tax |-> taxAmount(body.tax).val,
     total |-> jsAdd(subtotalOf(body.items.list), taxAmount(body.tax)),
     dueDate |-> NoVal,
     createdAt |-> "2026-11-01",
     pdfPath |-> 0]

\* pdfPath is 0 (null) or the invoice number its file name is derived from
pathOf(inv) == inv.invoiceNumber

NoSink == [path |-> 0, state |-> "none", queued |-> FALSE, written |-> FALSE]

Idle ==
    [kind |-> "idle", pc |-> "idle", body |-> <<>>, id |-> 0, inv |-> <<>>, code |-> 0,
     sink |-> NoSink, promise |-> "none", renders |-> 0, regen |-> "no", sent |-> "none",
     failed |-> "none", persisted |-> FALSE]

Free(r) == req[r].pc \in {"idle", "done"}

\* a new request runs in the first slot that has no handler in flight
CanTake(r) == Free(r) /\ (r = "b" => ~Free("a"))

\* the handler ends with a response; its locals (document, sink, promise) die
Respond(rec, code) ==
    [rec EXCEPT !.pc = "done", !.code = code, !.inv = <<>>, !.sink = NoSink, !.promise = "none",
                !.id = 0, !.body = IF code = 400 THEN @ ELSE <<>>,
                !.failed = IF rec.kind = "download" THEN @ ELSE "none",
                !.renders = IF rec.kind = "download" THEN @ ELSE 0,
                !.persisted = IF rec.kind = "download" THEN @ ELSE FALSE]

\* variant: completion is signalled as soon as the content is queued
promiseAfterEnd_Resolved == "resolved"

\* state of the promise when generateInvoicePDF returns after doc.end()
promiseAfterEnd == "pending"

\* generateInvoicePDF up to its return: the sink is opened, the document is
\* drawn and ended (all content queued), the finish / error handlers are
\* attached; an exception in the drawing code rejects at once
startRender(rec, path, throws) ==
    IF throws
    THEN [rec EXCEPT !.pc = "rendering", !.renders = @ + 1, !.promise = "rejected",
                     !.failed = "render",
                     !.sink = [path |-> path, state |-> "abandoned", queued |-> FALSE, written |-> FALSE]]
    ELSE [rec EXCEPT !.pc = "rendering", !.renders = @ + 1, !.promise = promiseAfterEnd,
                     !.sink = [path |-> path, state |-> "open", queued |-> TRUE, written |-> FALSE]]

\* variant: the artifact is regenerated only when pdfPath is null
needsRender_NullOnly(inv) == inv.pdfPath = 0

\* !invoice.pdfPath || !fs.existsSync(invoice.pdfPath)
needsRender(inv) == inv.pdfPath = 0 \/ inv.pdfPath \notin files

\* fs.createReadStream(invoice.pdfPath).pipe(res)
stream(rec, path) ==
    [Respond(rec, 200) EXCEPT !.sent = IF path \in files THEN "artifact" ELSE "broken"]

SInit ==
    /\ store = <<>>
    /\ files = {}
    /\ nextNum = 1
    /\ req = [r \in Slots |-> Idle]

\* the sink writes the queued content to the file (created or truncated)
SinkWrite(r) ==
    /\ req[r].sink.state = "open"
    /\ req[r].sink.queued
    /\ req' = [req EXCEPT ![r].sink.queued = FALSE, ![r].sink.written = TRUE]
    /\ files' = files \cup {req[r].sink.path}
    /\ UNCHANGED <<store, nextNum>>
    /\ UNCHANGED lvars

\* stream.on('finish', () => resolve(outputPath))
SinkFinish(r) ==
    /\ req[r].sink.state = "open"
    /\ ~req[r].sink.queued
    /\ req' = [req EXCEPT ![r].sink.state = "finished",
                          ![r].promise = IF @ = "pending" THEN "resolved" ELSE @]
    /\ files' = files \cup {req[r].sink.path}
    /\ UNCHANGED <<store, nextNum>>
    /\ UNCHANGED lvars

\* stream.on('error', reject)
SinkError(r) ==
    /\ req[r].sink.state = "open"
    /\ req' = [req EXCEPT ![r].sink.state = "errored",
                          ![r].promise = IF @ = "pending" THEN "rejected" ELSE @,
                          ![r].failed = "render"]
    /\ UNCHANGED <<store, files, nextNum>>
    /\ UNCHANGED lvars

\* POST /api/invoices up to the first await
CreateInvoice(r, body) ==
    /\ CanTake(r)
    /\ IF validate(body) # 0
       THEN /\ req' = [req EXCEPT ![r] = Respond([Idle EXCEPT !.kind = "create", !.body = <<body>>],
                                                  validate(body))]
            /\ UNCHANGED nextNum
       ELSE /\ nextNum <= MaxInvoices
            /\ req' = [req EXCEPT ![r] = [Idle EXCEPT !.kind = "create", !.body = <<body>>,
                                                       !.pc = "saving", !.id = nextNum,
                                                       !.inv = <<newInvoice(body, nextNum)>>]]
            /\ nextNum' = nextNum + 1
    /\ UNCHANGED <<store, files>>
    /\ UNCHANGED lvars

\* the first invoice.save() returns; generateInvoicePDF is called
CreateSaved(r, dbOk, throws) ==
    /\ req[r].kind = "create" /\ req[r].pc = "saving"
    /\ IF dbOk
       THEN /\ store' = [n \in DOMAIN store \cup {req[r].id} |->
                            IF n = req[r].id THEN req[r].inv[1] ELSE store[n]]
            /\ req' = [req EXCEPT ![r] = startRender(req[r], pathOf(req[r].inv[1]), throws)]
       ELSE /\ req' = [req EXCEPT ![r] = Respond([req[r] EXCEPT !.failed = "save"], 500)]
            /\ UNCHANGED store
    /\ UNCHANGED <<files, nextNum>>
    /\ UNCHANGED lvars

\* variant: generateInvoicePDF is not awaited, pdfPath is set whatever the outcome
AfterRender_NoAwait(r) ==
    /\ req[r].kind \in {"create", "download"} /\ req[r].pc = "rendering"
    /\ req' = [req EXCEPT ![r].pc = "savingPath",
                          ![r].inv = <<[req[r].inv[1] EXCEPT !.pdfPath = req[r].sink.path]>>]
    /\ UNCHANGED <<store, files, nextNum>>
    /\ UNCHANGED lvars

\* await generateInvoicePDF(...) returns or throws; pdfPath is set and saved
AfterRender(r) ==
    /\ req[r].kind \in {"create", "download"} /\ req[r].pc = "rendering"
    /\ req[r].promise \in {"resolved", "rejected"}
    /\ IF req[r].promise = "resolved"
       THEN req' = [req EXCEPT ![r].pc = "savingPath",
                               ![r].inv = <<[req[r].inv[1] EXCEPT !.pdfPath = req[r].sink.path]>>]
       ELSE req' = [req EXCEPT ![r] = Respond(req[r], 500)]
    /\ UNCHANGED <<store, files, nextNum>>
    /\ UNCHANGED lvars

\* the save of pdfPath returns: 201 for a create, the stream for a download
PathSaved(r, dbOk) ==
    /\ req[r].kind \in {"create", "download"} /\ req[r].pc = "savingPath"
    /\ IF dbOk /\ req[r].id \in DOMAIN store
       THEN /\ store' = [store EXCEPT ![req[r].id].pdfPath = req[r].inv[1].pdfPath]
            /\ req' = [req EXCEPT ![r] =
                         IF req[r].kind = "create"
                         THEN Respond([req[r] EXCEPT !.persisted = TRUE], 201)
                         ELSE stream([req[r] EXCEPT !.persisted = TRUE], req[r].inv[1].pdfPath)]
       ELSE /\ req' = [req EXCEPT ![r] = Respond([req[r] EXCEPT !.failed = "save"], 500)]
            /\ UNCHANGED store
    /\ UNCHANGED <<files, nextNum>>
    /\ UNCHANGED lvars

\* GET /api/invoices/:id/download up to the first await
DownloadInvoice(r, id) ==
    /\ CanTake(r)
    /\ req' = [req EXCEPT ![r] = [Idle EXCEPT !.kind = "download", !.pc = "finding", !.id = id]]
    /\ UNCHANGED <<store, files, nextNum>>
    /\ UNCHANGED lvars

\* findById returns: 404, or the stream of the artifact, or the regeneration
DownloadFound(r, dbOk, throws) ==
    /\ req[r].kind = "download" /\ req[r].pc = "finding"
    /\ req' = [req EXCEPT ![r] =
         IF ~dbOk THEN Respond([req[r] EXCEPT !.failed = "db"], 500)
         ELSE IF req[r].id \notin DOMAIN store THEN Respond(req[r], 404)
         ELSE IF needsRender(store[req[r].id])
              THEN startRender([req[r] EXCEPT !.inv = <<store[req[r].id]>>,
                                              !.regen = IF store[req[r].id].pdfPath = 0
                                                        THEN "null" ELSE "missing"],
                               pathOf(store[req[r].id]), throws)
              ELSE stream([req[r] EXCEPT !.inv = <<store[req[r].id]>>], store[req[r].id].pdfPath)]
    /\ UNCHANGED <<store, files, nextNum>>
    /\ UNCHANGED lvars

\* DELETE /api/invoices/:id up to the first await
DeleteInvoice(r, id) ==
    /\ CanTake(r)
    /\ req' = [req EXCEPT ![r] = [Idle EXCEPT !.kind = "delete", !.pc = "finding", !.id = id]]
    /\ UNCHANGED <<store, files, nextNum>>
    /\ UNCHANGED lvars

\* findById returns: the artifact is unlinked, findByIdAndDelete is issued
DeleteFound(r, dbOk) ==
    /\ req[r].kind = "delete" /\ req[r].pc = "finding"
    /\ IF ~dbOk
       THEN /\ req' = [req EXCEPT ![r] = Respond([req[r] EXCEPT !.failed = "db"], 500)]
            /\ UNCHANGED files
       ELSE IF req[r].id \notin DOMAIN store
            THEN /\ req' = [req EXCEPT ![r] = Respond(req[r], 404)]
                 /\ UNCHANGED files
            ELSE /\ req' = [req EXCEPT ![r].pc = "deleting", ![r].inv = <<store[req[r].id]>>]
                 /\ files' = files \ {store[req[r].id].pdfPath}
    /\ UNCHANGED <<store, nextNum>>
    /\ UNCHANGED lvars

\* findByIdAndDelete returns
DeleteDone(r, dbOk) ==
    /\ req[r].kind = "delete" /\ req[r].pc = "deleting"
    /\ IF dbOk
       THEN /\ store' = [n \in DOMAIN store \ {req[r].id} |-> store[n]]
            /\ req' = [req EXCEPT ![r] = Respond(req[r], 200)]
       ELSE /\ req' = [req EXCEPT ![r] = Respond([req[r] EXCEPT !.failed = "db"], 500)]
            /\ UNCHANGED store
    /\ UNCHANGED <<files, nextNum>>
    /\ UNCHANGED lvars

\* a handler is running on the invoice
InFlight(n) == \E r \in Slots : ~Free(r) /\ req[r].id = n

\* the environment removes an artifact while no handler works on its invoice
ArtifactLost(n) ==
    /\ n \in files
    /\ ~InFlight(n)
    /\ files' = files \ {n}
    /\ UNCHANGED <<store, nextNum, req>>
    /\ UNCHANGED lvars

\* the layout run is off while the server runs
LOff ==
    /\ invoiceData = RenderInput(NoVal, NoVal, NoVal, 0, <<ItemOf(1, 50)>>)
    /\ logo = "absent"
    /\ doc = <<>>
    /\ prev = <<>>
    /\ lpc = "off"

Init == SInit /\ LOff

Next ==
    \/ \E r \in Slots, body \in Bodies : CreateInvoice(r, body)
    \/ \E r \in Slots, dbOk \in BOOLEAN, throws \in BOOLEAN : CreateSaved(r, dbOk, throws)
    \/ \E r \in Slots : AfterRender(r)
    \/ \E r \in Slots, dbOk \in BOOLEAN : PathSaved(r, dbOk)
    \/ \E r \in Slots, id \in Nums : DownloadInvoice(r, id)
    \/ \E r \in Slots, dbOk \in BOOLEAN, throws \in BOOLEAN : DownloadFound(r, dbOk, throws)
    \/ \E r \in Slots, id \in Nums : DeleteInvoice(r, id)
    \/ \E r \in Slots, dbOk \in BOOLEAN : DeleteFound(r, dbOk)
    \/ \E r \in Slots, dbOk \in BOOLEAN : DeleteDone(r, dbOk)
    \/ \E r \in Slots : SinkWrite(r)
    \/ \E r \in Slots : SinkFinish(r)
    \/ \E r \in Slots : SinkError(r)
    \/ \E n \in Nums : ArtifactLost(n)

Spec == Init /\ [][Next]_vars

\* ------------------------------------------------------------ layout run, continued
LInit ==
    /\ invoiceData \in RenderInputs
    /\ logo \in LogoStates
    /\ doc = <<>>
    /\ prev = <<>>
    /\ lpc = "ready"
    /\ SInit

\* one call of generateInvoicePDF on the current input
Render ==
    /\ lpc = "ready"
    /\ doc' = generateInvoicePDF(invoiceData, logo)
    /\ lpc' = "done"
    /\ UNCHANGED <<invoiceData, logo, prev>>
    /\ UNCHANGED svars

Keep == [invoiceData |-> invoiceData, logo |-> logo, doc |-> doc]

\* the environment changes the logo asset between two renders
ChangeLogo ==
    /\ lpc = "done"
    /\ \E l \in LogoStates \ {logo} : logo' = l
    /\ prev' = <<Keep>>
    /\ lpc' = "ready"
    /\ UNCHANGED <<invoiceData, doc>>
    /\ UNCHANGED svars

\* the next render is of an invoice that differs in one field
ChangeInvoice ==
    /\ lpc = "done"
    /\ \E inv \in RenderInputs :
         /\ inv # invoiceData
         /\ \/ /\ inv.items = invoiceData.items
               /\ inv.tax = invoiceData.tax
               /\ Cardinality({f \in {"address", "phone"} :
                     inv.clientInfo[f] # invoiceData.clientInfo[f]}
                   \cup (IF inv.dueDate # invoiceData.dueDate THEN {"dueDate"} ELSE {})) = 1
            \/ /\ inv.clientInfo = invoiceData.clientInfo
               /\ inv.dueDate = invoiceData.dueDate
               /\ inv.items = invoiceData.items
         /\ invoiceData' = inv
    /\ prev' = <<Keep>>
    /\ lpc' = "ready"
    /\ UNCHANGED <<logo, doc>>
    /\ UNCHANGED svars

\* the same invoice is rendered again
RenderAgain ==
    /\ lpc = "done"
    /\ prev' = <<Keep>>
    /\ lpc' = "ready"
    /\ UNCHANGED <<invoiceData, logo, doc>>
    /\ UNCHANGED svars

LNext == Render \/ ChangeLogo \/ ChangeInvoice \/ RenderAgain

LayoutSpec == LInit /\ [][LNext]_vars

\* ------------------------------------------------------------ reading a document
TagsOf(d) == {d[i].tag : i \in DOMAIN d}

HasTag(d, tag) == tag \in TagsOf(d)

\* vertical offset of the first operation carrying the tag
YOf(d, tag) == d[CHOOSE i \in DOMAIN d : d[i].tag = tag /\ \A j \in 1..(i - 1) : d[j].tag # tag].y

YsOf(d, tag) == {d[i].y : i \in {j \in DOMAIN d : d[j].tag = tag}}

IsTagged(o, tags) == o.tag \in tags

HeaderTags == {"companyName", "companyAddress", "companyEmail", "companyPhone"}
TitleTags == {"title", "invoiceNumber", "date", "dueDate"}
ClientTags == {"billTo", "clientName", "clientEmail", "clientAddress", "clientPhone"}
AfterClientTags == {"tableHeader", "tableRule", "row", "totalsRule", "subtotal", "tax", "total", "footer"}

Shifted(o, dy) == [o EXCEPT !.y = @ + dy]

\* two consecutive renders of the same invoice
SameInvoicePair == lpc = "done" /\ prev # <<>> /\ prev[1].invoiceData = invoiceData

\* ... one without the logo asset and one with a readable logo
LogoPair == SameInvoicePair /\ {prev[1].logo, logo} = {"absent", "ok"}

DocNoLogo == IF logo = "absent" THEN doc ELSE prev[1].doc
DocLogo == IF logo = "ok" THEN doc ELSE prev[1].doc

\* C1 (as stated): with the logo every block of the same invoice, the client
\* block and what follows it included, sits exactly 70 units lower than without
\* the logo, and nothing else changes.
C1_AllBlocksShiftByLogoHeight ==
    LogoPair =>
        /\ Len(DocLogo) = Len(DocNoLogo) + 1
        /\ DocLogo[1].tag = "logo"
        /\ \A i \in DOMAIN DocNoLogo : DocLogo[i + 1] = Shifted(DocNoLogo[i], 70)

\* C1 (amended): with the logo the company header lines and the invoice-title
\* block sit exactly 70 units lower, the client block and every block after it
\* exactly 60 units lower (its origin is max(160, headerY + 100)), the logo
\* image is added, and nothing else changes.
C1_LogoShift ==
    LogoPair =>
        /\ Len(DocLogo) = Len(DocNoLogo) + 1
        /\ DocLogo[1].tag = "logo"
        /\ \A i \in DOMAIN DocNoLogo :
             DocLogo[i + 1] =
                Shifted(DocNoLogo[i],
                        IF DocNoLogo[i].tag \in HeaderTags \cup TitleTags THEN 70 ELSE 60)

C1_Witness == LogoPair /\ logo = "ok" /\ HasTag(doc, "logo") /\ YOf(doc, "billTo") = 220

\* ... one with clientInfo.address and one without it, under the same logo state
AddressPair ==
    /\ lpc = "done" /\ prev # <<>> /\ prev[1].logo = logo
    /\ prev[1].invoiceData # invoiceData
    /\ \/ /\ invoiceData.clientInfo.address = NoVal
          /\ prev[1].invoiceData = [invoiceData EXCEPT !.clientInfo.address = "1 Main St"]
       \/ /\ prev[1].invoiceData.clientInfo.address = NoVal
          /\ invoiceData = [prev[1].invoiceData EXCEPT !.clientInfo.address = "1 Main St"]

DocNoAddress == IF invoiceData.clientInfo.address = NoVal THEN doc ELSE prev[1].doc
DocAddress == IF invoiceData.clientInfo.address = NoVal THEN prev[1].doc ELSE doc

AfterClient(d) == SelectSeq(d, LAMBDA o : o.tag \in AfterClientTags)

C3_TaxLine ==
    lpc = "done" =>
        /\ invoiceData.tax = 0 =>
             /\ ~HasTag(doc, "tax")
             /\ YsOf(doc, "total") = {YOf(doc, "subtotal") + 20}
        /\ invoiceData.tax > 0 =>
             /\ YsOf(doc, "tax") = {YOf(doc, "subtotal") + 20}
             /\ YsOf(doc, "total") = {YOf(doc, "subtotal") + 40}

C3_Witness ==
    /\ lpc = "done"
    /\ invoiceData.tax > 0
    /\ HasTag(doc, "tax")
    /\ prev # <<>>
    /\ prev[1].invoiceData.tax = 0
    /\ ~HasTag(prev[1].doc, "tax")

ClientLines(d) == SelectSeq(d, LAMBDA o : o.tag \in ClientTags)

RowOps(d) == SelectSeq(d, LAMBDA o : o.tag = "row")

\* C4: in every render with n >= 1 items, whatever the address, phone and logo,
\* the table header is strictly below the last client-block line, row i+1 is
\* exactly 20 below row i, and the rows are drawn in input order.
C4_TableFlow ==
    (lpc = "done" /\ Len(invoiceData.items) >= 1) =>
        /\ \A y \in YsOf(doc, "tableHeader") :
             /\ y > ClientLines(doc)[Len(ClientLines(doc))].y
             /\ \A i \in DOMAIN ClientLines(doc) : y > ClientLines(doc)[i].y
        /\ Len(RowOps(doc)) = 4 * Len(invoiceData.items)
        /\ \A i \in 1..Len(invoiceData.items) :
             /\ \A k \in 1..4 : RowOps(doc)[4 * (i - 1) + k].row = i
             /\ RowOps(doc)[4 * (i - 1) + 1].txt.str = invoiceData.items[i].description
             /\ RowOps(doc)[4 * (i - 1) + 2].txt.num = invoiceData.items[i].quantity
             /\ Cardinality({RowOps(doc)[4 * (i - 1) + k].y : k \in 1..4}) = 1
        /\ \A i \in 1..(Len(invoiceData.items) - 1) :
             RowOps(doc)[4 * i + 1].y = RowOps(doc)[4 * (i - 1) + 1].y + 20

C4_Witness ==
    /\ lpc = "done"
    /\ Len(invoiceData.items) >= 2
    /\ invoiceData.items[1].quantity # invoiceData.items[2].quantity
    /\ HasTag(doc, "clientAddress") /\ HasTag(doc, "clientPhone") /\ HasTag(doc, "logo")
    /\ Len(RowOps(doc)) = 8

\* ... one with an unreadable logo asset and one with no logo asset
CorruptPair == SameInvoicePair /\ {prev[1].logo, logo} = {"absent", "corrupt"}

\* C8: a render with a logo asset that exists but cannot be decoded completes,
\* reserves no logo height (the header starts at the top margin 50, no image is
\* drawn) and its layout is the layout of the same invoice without a logo.
C8_CorruptLogoIsNoLogo ==
    /\ (lpc = "done" /\ logo = "corrupt") =>
         /\ doc # <<>>
         /\ ~HasTag(doc, "logo")
         /\ YOf(doc, "companyName") = 50
         /\ HasTag(doc, "footer")
    /\ CorruptPair => doc = prev[1].doc

C8_Witness == CorruptPair /\ logo = "corrupt" /\ HasTag(doc, "footer")

\* ------------------------------------------------------------ the handlers' claims
\* C5 (as stated): every persisted invoice has amount = quantity * rate for
\* each item, subtotal = the sum of the amounts, tax >= 0, tax = 0 when the
\* request gave none, and total = subtotal + tax.
C5_PersistedTotals ==
    /\ \A n \in DOMAIN store :
         /\ \A i \in DOMAIN store[n].items :
              store[n].items[i].amount = store[n].items[i].quantity * store[n].items[i].rate
         /\ store[n].subtotal = SumAmounts(store[n].items)
         /\ store[n].tax >= 0
         /\ store[n].total = store[n].subtotal + store[n].tax
    /\ \A r \in Slots :
         (req[r].kind = "create" /\ req[r].pc # "done" /\ req[r].id \in DOMAIN store
            /\ req[r].body[1].tax.kind = "none") => store[req[r].id].tax = 0

Rendering(r) == req[r].pc = "rendering"

C6_StateOk ==
    \A r \in Slots :
        /\ req[r].promise = "resolved" =>
             req[r].sink.state = "finished" /\ req[r].sink.written /\ ~req[r].sink.queued
        /\ req[r].sink.state = "finished" => req[r].promise = "resolved"
        /\ req[r].sink.state = "errored" => req[r].promise = "rejected"
        /\ Rendering(r) => req[r].promise \in {"pending", "resolved", "rejected"}
        /\ req[r].pc = "savingPath" => req[r].promise = "resolved"

C6_StepOk ==
    \A r \in Slots :
        /\ (Rendering(r) /\ req[r].promise # "pending" /\ req'[r].pc = "rendering") =>
              req'[r].promise = req[r].promise
        /\ (Rendering(r) /\ req'[r].pc # "rendering") =>
              /\ req[r].promise \in {"resolved", "rejected"}
              /\ req[r].promise = "rejected" <=> (req'[r].pc = "done" /\ req'[r].code = 500)

\* C6: a render signals completion only once its sink has finished with all
\* content written, a sink error gives the failure signal, a signal once given
\* never changes, and the caller continues only on one of the two signals.
C6_CompletionAfterFinish == [](C6_StateOk) /\ [][C6_StepOk]_vars

C6_Witness ==
    \E r \in Slots :
        /\ req[r].promise = "resolved" /\ req[r].sink.state = "finished"
        /\ \E q \in Slots : req[q].sink.state = "errored" /\ req[q].promise = "rejected"

\* the bodies the claim names: no clientInfo, no name, no email, items missing,
\* not an array, or empty
InvalidBody(b) ==
    \/ b.clientInfo = NoClient
    \/ b.clientInfo[1].name = NoVal
    \/ b.clientInfo[1].email = NoVal
    \/ b.items.kind \in {"missing", "notArray"}
    \/ b.items.list = <<>>

\* C7: a create request with such a body is answered 400 in the step that
\* receives it, starts no render, and leaves the record store and the artifact
\* directory unchanged.
C7_ValidationFirst ==
    [][\A r \in Slots :
          (CanTake(r) /\ req'[r] # req[r] /\ req'[r].kind = "create"
             /\ InvalidBody(req'[r].body[1])) =>
             /\ req'[r].pc = "done" /\ req'[r].code = 400
             /\ req'[r].renders = 0 /\ req'[r].sink = NoSink /\ req'[r].promise = "none"
             /\ store' = store /\ files' = files /\ nextNum' = nextNum]_vars

C7_Witness ==
    \E r \in Slots :
        /\ req[r].kind = "create" /\ req[r].pc = "done" /\ req[r].code = 400
        /\ InvalidBody(req[r].body[1])
        /\ req[r].body[1].items.kind = "array" /\ req[r].body[1].clientInfo # NoClient
        /\ DOMAIN store # {}

IsDownload(r) == req[r].kind = "download"

C9_StateOk ==
    \A r \in Slots :
        (IsDownload(r) /\ req[r].pc = "done") =>
            /\ (req[r].regen # "no" /\ req[r].code = 500) => req[r].failed \in {"render", "save"}
            /\ req[r].regen # "no" =>
                 \/ req[r].code = 500 /\ req[r].sent = "none" /\ ~req[r].persisted
                 \/ req[r].code = 200 /\ req[r].sent # "none" /\ req[r].persisted
                    /\ req[r].renders = 1 /\ req[r].failed = "none"
            /\ (req[r].regen = "no" /\ req[r].code = 200) =>
                 req[r].renders = 0 /\ req[r].sent = "artifact" /\ ~req[r].persisted

C9_StepOk ==
    \A r \in Slots :
        /\ (IsDownload(r) /\ req[r].pc = "finding" /\ req'[r].pc # "finding"
              /\ req[r].id \in DOMAIN store /\ req'[r].failed # "db") =>
             IF store[req[r].id].pdfPath = 0 \/ store[req[r].id].pdfPath \notin files
             THEN req'[r].pc = "rendering" /\ req'[r].renders = 1 /\ req'[r].sent = "none"
                  /\ req'[r].sink.path = store[req[r].id].invoiceNumber
             ELSE req'[r].pc = "done" /\ req'[r].code = 200 /\ req'[r].renders = 0
                  /\ req'[r].sent = "artifact"
        /\ (IsDownload(r) /\ req[r].sent = "none" /\ req'[r].sent # "none" /\ req[r].renders > 0) =>
             /\ req[r].promise = "resolved"
             /\ req[r].id \in DOMAIN store'
             /\ store'[req[r].id].pdfPath = req[r].sink.path
             /\ req'[r].persisted

C11_TopToBottom ==
    lpc = "done" =>
        \A i \in DOMAIN doc : \A j \in DOMAIN doc : i < j => doc[j].y >= doc[i].y

\* C11 (amended): offsets never decrease from one emitted operation to a later
\* one except from a company-header line to a line of the invoice-title block,
\* which is emitted after the header and starts at the header's first offset.
C11_TopToBottomByColumn ==
    lpc = "done" =>
        /\ \A i \in DOMAIN doc : \A j \in DOMAIN doc :
              (i < j /\ ~(doc[i].tag \in HeaderTags /\ doc[j].tag \in TitleTags)) =>
                 doc[j].y >= doc[i].y
        /\ YOf(doc, "title") = YOf(doc, "companyName")
        /\ \A i \in DOMAIN doc : \A j \in DOMAIN doc :
              (i < j /\ doc[i].tag \in HeaderTags /\ doc[j].tag \in HeaderTags) =>
                 doc[j].y > doc[i].y

C11_Witness ==
    /\ lpc = "done"
    /\ HasTag(doc, "logo") /\ HasTag(doc, "dueDate") /\ HasTag(doc, "tax")
    /\ YOf(doc, "title") < YOf(doc, "companyPhone")
    /\ YOf(doc, "billTo") > YOf(doc, "dueDate")

\* two consecutive renders under the same logo state of invoices that differ
\* in the presence of dueDate only
DuePair ==
    /\ lpc = "done" /\ prev # <<>> /\ prev[1].logo = logo
    /\ prev[1].invoiceData # invoiceData
    /\ \/ /\ invoiceData.dueDate = NoVal
          /\ prev[1].invoiceData = [invoiceData EXCEPT !.dueDate = "2026-12-01"]
       \/ /\ prev[1].invoiceData.dueDate = NoVal
          /\ invoiceData = [prev[1].invoiceData EXCEPT !.dueDate = "2026-12-01"]

DocNoDue == IF invoiceData.dueDate = NoVal THEN doc ELSE prev[1].doc
DocDue == IF invoiceData.dueDate = NoVal THEN prev[1].doc ELSE doc

TitleLines(d) == SelectSeq(d, LAMBDA o : o.tag \in TitleTags)

LastTitleY(d) == TitleLines(d)[Len(TitleLines(d))].y

TitleStartOk ==
    lpc = "done" =>
        /\ YOf(doc, "title") = Max(50, YOf(doc, "companyName"))
        /\ invoiceData.dueDate = NoVal =>
             ~HasTag(doc, "dueDate") /\ LastTitleY(doc) = YOf(doc, "title") + 45
        /\ invoiceData.dueDate # NoVal =>
             HasTag(doc, "dueDate") /\ LastTitleY(doc) = YOf(doc, "title") + 60

\* C12 (as stated): the title block starts at max(50, header cursor); without
\* dueDate no Due Date line is drawn, and the client block keeps the same
\* distance to the last title line actually drawn as with dueDate.
C12_ClientFollowsLastTitleLine ==
    /\ TitleStartOk
    /\ DuePair =>
         YOf(DocNoDue, "billTo") - LastTitleY(DocNoDue) = YOf(DocDue, "billTo") - LastTitleY(DocDue)

\* C12 (amended): the title block starts at max(50, header cursor); without
\* dueDate no Due Date line is drawn and the title block ends one line higher;
\* the client block and every block after it are drawn at the same offsets
\* with and without dueDate (their origin is measured from the header cursor).
C12_TitleBlock ==
    /\ TitleStartOk
    /\ DuePair =>
         /\ DocNoDue = SelectSeq(DocDue, LAMBDA o : o.tag # "dueDate")
         /\ YOf(DocNoDue, "billTo") = YOf(DocDue, "billTo")
         /\ LastTitleY(DocNoDue) = LastTitleY(DocDue) - 15

C12_Witness ==
    /\ DuePair
    /\ invoiceData.dueDate = NoVal
    /\ HasTag(prev[1].doc, "dueDate") /\ ~HasTag(doc, "dueDate")
    /\ HasTag(doc, "logo")

HeaderLines(d) == SelectSeq(d, LAMBDA o : o.tag \in HeaderTags)

\* C13: in every render, whatever the logo state and with or without dueDate,
\* the client block starts strictly below every line of the title block and
\* strictly below every company-header line.
C13_ClientBelowHeaderAndTitle ==
    lpc = "done" =>
        /\ YOf(doc, "billTo") > LastTitleY(doc)
        /\ YOf(doc, "billTo") > HeaderLines(doc)[Len(HeaderLines(doc))].y
        /\ \A i \in DOMAIN doc :
              doc[i].tag \in HeaderTags \cup TitleTags =>
                 \A j \in DOMAIN doc : doc[j].tag \in ClientTags => doc[j].y > doc[i].y

C13_Witness ==
    /\ lpc = "done"
    /\ logo = "ok" /\ HasTag(doc, "logo") /\ HasTag(doc, "dueDate")
    /\ YOf(doc, "billTo") = 220 /\ LastTitleY(doc) = 180
    /\ prev # <<>> /\ prev[1].logo = "absent" /\ prev[1].doc # <<>>

\* ------------------------------------------------------------ pdfPath and the renders
\* the handler in slot r takes a step
Acts(r) == req'[r] # req[r]

C14_StateOk ==
    \A n \in DOMAIN store : store[n].pdfPath \in {0, store[n].invoiceNumber}

C14_StepOk ==
    /\ \A n \in DOMAIN store' :
         /\ n \notin DOMAIN store => store'[n].pdfPath = 0
         /\ (n \in DOMAIN store /\ store'[n].pdfPath # store[n].pdfPath) =>
               \E r \in Slots :
                   /\ Acts(r) /\ req[r].id = n /\ req[r].kind \in {"create", "download"}
                   /\ req[r].promise = "resolved"
                   /\ req[r].sink.state = "finished" /\ req[r].sink.written
                   /\ req[r].sink.path = store'[n].pdfPath
                   /\ store'[n].pdfPath # 0
    /\ \A r \in Slots :
         (Acts(r) /\ req[r].promise = "rejected") =>
             /\ store' = store
             /\ req'[r].pc = "done" /\ req'[r].code = 500 /\ ~req'[r].persisted

\* C14: in every reachable state a stored pdfPath is null or the path of the
\* invoice's own artifact; it is set or changed only by a handler whose render
\* to exactly that path had resolved on the sink's finish, and a handler whose
\* render failed leaves the record store as it was.
C14_PdfPathAfterFinishedRender == [](C14_StateOk) /\ [][C14_StepOk]_vars

C14_Witness ==
    /\ \E n \in DOMAIN store : store[n].pdfPath = n
    /\ \E r \in Slots : /\ IsDownload(r) /\ req[r].pc = "done" /\ req[r].regen = "missing"
                        /\ req[r].code = 500 /\ req[r].failed = "render"

====
